---- MODULE Spec2Model ----
(***************************************************************************)
(* Model of the Mini-Shell command evaluator, src/src/cmd.c.               *)
(*                                                                         *)
(* parse_command walks a command tree recursively; parse_simple runs a     *)
(* leaf (builtin cd, builtin exit, or an external program in a forked      *)
(* child).  The recursion is modelled by an explicit call stack of the     *)
(* shell process; every forked child is a process of its own.              *)
(***************************************************************************)
EXTENDS Integers, Sequences, FiniteSets, TLC

VARIABLES
    tree,     \* the command tree handed to parse_command (immutable input)
    stack,    \* call stack of the shell process: frames of parse_command
    rets,     \* history: path of a node |-> status its parse_command returned
    procs,    \* child processes created by fork(), indexed by pid
    fds,      \* descriptor table of the shell process
    cwd,      \* working directory of the shell process
    files,    \* the regular files that exist: name |-> content, a sequence of bytes
    heap      \* the buffers the shell process has allocated and not freed

vars == <<tree, stack, rets, procs, fds, cwd, files, heap>>

----------------------------------------------------------------------------
(* Bounds of the model *)

\* trees have at most MaxNodes operator (non-leaf) nodes
MaxNodes == 1
\* an external program exits with a code in 0..MaxExit, or with 255
MaxExit == 1
\* an external program writes at most MaxWrites bytes to the files its
\* standard output and standard error are redirected to
MaxWrites == 2

----------------------------------------------------------------------------
(* Values *)

SHELL_EXIT == -100

NullStr == "<NULL>"

\* word_t *: addr 0 is the NULL pointer; text is what get_word resolves it to
NullWord == [addr |-> 0, text |-> NullStr]

Word(a, t) == [addr |-> a, text |-> t]

get_word(w) == IF w.addr = 0 THEN NullStr ELSE w.text

\* simple_command_t *
NullScmd ==
    [null |-> TRUE, verb |-> NullWord, params |-> NullWord, in |-> NullWord,
     out |-> NullWord, err |-> NullWord, io_flags |-> {}]

Scmd(verb, params, in, out, err, io_flags) ==
    [null |-> FALSE, verb |-> verb, params |-> params, in |-> in,
     out |-> out, err |-> err, io_flags |-> io_flags]

\* command_t *
NullCmd == [null |-> TRUE]

LeafCmd(s) == [null |-> FALSE, op |-> "OP_NONE", scmd |-> s]

OpCmd(op, c1, c2) == [null |-> FALSE, op |-> op, cmd1 |-> c1, cmd2 |-> c2]

\* operator tags of an internal node; OP_DUMMY stands for any tag the switch
\* of parse_command has no case for
Ops ==
    {"OP_SEQUENTIAL", "OP_PARALLEL", "OP_CONDITIONAL_NZERO",
     "OP_CONDITIONAL_ZERO", "OP_PIPE", "OP_DUMMY"}

----------------------------------------------------------------------------
(* The inputs: command trees *)

\* the leaves (and the NULL command) a tree is built from
Leaves ==
    { NullCmd,
      LeafCmd(NullScmd),
      LeafCmd(Scmd(NullWord, NullWord, NullWord, NullWord, NullWord, {})),
      LeafCmd(Scmd(Word(1, NullStr), NullWord, NullWord, NullWord, NullWord, {})),
      LeafCmd(Scmd(Word(1, "cd"), Word(2, "dir"), Word(3, "f"), NullWord,
                   NullWord, {})),
      LeafCmd(Scmd(Word(1, "exit"), NullWord, NullWord, NullWord, NullWord, {})),
      LeafCmd(Scmd(Word(1, "quit"), NullWord, NullWord, NullWord, NullWord, {})),
      LeafCmd(Scmd(Word(1, "prog"), NullWord, NullWord, NullWord,
                   NullWord, {})) }

RECURSIVE TreesOfSize(_)
\* the trees with exactly n operator nodes
TreesOfSize(n) ==
    IF n = 0 THEN Leaves
    ELSE UNION { { OpCmd(op, a, b) :
                     op \in Ops, a \in TreesOfSize(k), b \in TreesOfSize(n - 1 - k) } :
                 k \in 0..(n - 1) }

\* c is a tree with exactly n operator nodes
IsTreeOfSize(c, n) ==
    IF n = 0 THEN c \in Leaves
    ELSE \E k \in 0..(n - 1), op \in Ops :
            \E a \in TreesOfSize(k), b \in TreesOfSize(n - 1 - k) :
                c = OpCmd(op, a, b)

RECURSIVE NodeAt(_, _)
\* the node of tree c reached by path p (1 = cmd1, 2 = cmd2)
NodeAt(c, p) ==
    IF p = <<>> THEN c
    ELSE NodeAt(IF Head(p) = 1 THEN c.cmd1 ELSE c.cmd2, Tail(p))

Node(p) == NodeAt(tree, p)

----------------------------------------------------------------------------
(* Descriptor tables *)

Put(f, k, v) == [x \in DOMAIN f \cup {k} |-> IF x = k THEN v ELSE f[x]]

Drop(f, k) == [x \in DOMAIN f \ {k} |-> f[x]]

STDIN_FILENO == 0
STDOUT_FILENO == 1
STDERR_FILENO == 2

\* what a descriptor refers to: the file it was opened on, the open flags and
\* the file offset, which open() sets to 0
Target(file, flags) == [file |-> file, flags |-> flags, pos |-> 0]

Tty == Target("tty", {"O_RDWR"})

\* open() and dup() return the lowest descriptor that is not in use
LowestFree(fdt) ==
    CHOOSE n \in 0..Cardinality(DOMAIN fdt) :
        n \notin DOMAIN fdt /\ \A m \in 0..(n - 1) : m \in DOMAIN fdt

dup(fdt, fd) == Put(fdt, LowestFree(fdt), fdt[fd])

dup2(fdt, old, new) == IF old = new THEN fdt ELSE Put(fdt, new, fdt[old])

close(fdt, fd) == Drop(fdt, fd)

\* the effect of a successful open(src, flags, 0644) on the files: O_CREAT
\* creates a missing file empty, O_TRUNC empties an existing one
open(fs, src, flags) ==
    IF src \notin DOMAIN fs
    THEN (IF "O_CREAT" \in flags THEN Put(fs, src, <<>>) ELSE fs)
    ELSE (IF "O_TRUNC" \in flags THEN Put(fs, src, <<>>) ELSE fs)

\* the outcomes of the open() calls of one command_redirections call: the
\* environment decides whether each target can be opened
OpenOutcomes == [{"in", "out", "err"} -> BOOLEAN]

----------------------------------------------------------------------------
(* Redirection manager.  st = [fdt, files]: the descriptor table of the     *)
(* calling process and the files that exist, with their content.            *)

file_descriptor(st, src, dst, flags, ok) ==
    IF src = NullStr THEN st
    ELSE IF ~ok THEN st
    ELSE LET src_fd == LowestFree(st.fdt)
             opened == Put(st.fdt, src_fd, Target(src, flags))
         IN  [fdt   |-> close(dup2(opened, src_fd, dst), src_fd),
              files |-> open(st.files, src, flags)]

both_redirections(st, out_err, oks) ==
    IF out_err.addr = 0 THEN st
    ELSE LET file  == get_word(out_err)
             flags == {"O_WRONLY", "O_CREAT", "O_TRUNC"}
             st1   == file_descriptor(st, file, STDERR_FILENO, flags, oks["err"])
         IN  file_descriptor(st1, file, STDOUT_FILENO,
                             flags \cup {"O_APPEND"}, oks["out"])

input_redirection(st, in, oks) ==
    IF in.addr = 0 THEN st
    ELSE file_descriptor(st, get_word(in), STDIN_FILENO,
                         {"O_RDONLY", "O_CREAT"}, oks["in"])

output_redirection(st, out, io_flags, oks) ==
    IF out.addr = 0 THEN st
    ELSE LET flags == {"O_WRONLY", "O_CREAT"} \cup
                      (IF "IO_OUT_APPEND" \in io_flags THEN {"O_APPEND"}
                       ELSE {"O_TRUNC"})
         IN  file_descriptor(st, get_word(out), STDOUT_FILENO, flags, oks["out"])

error_redirection(st, err, io_flags, oks) ==
    IF err.addr = 0 THEN st
    ELSE LET flags == {"O_WRONLY", "O_CREAT"} \cup
                      (IF "IO_ERR_APPEND" \in io_flags THEN {"O_APPEND"}
                       ELSE {"O_TRUNC"})
         IN  file_descriptor(st, get_word(err), STDERR_FILENO, flags, oks["err"])

\* a variant that gives up at the first declared redirection that fails to
\* open
command_redirections_StopAtFailure(st, s, oks) ==
    IF s.err.addr # 0 /\ s.out.addr # 0 /\ s.err.addr = s.out.addr
    THEN both_redirections(st, s.out, oks)
    ELSE IF s.in.addr # 0 /\ ~oks["in"] THEN st
    ELSE IF s.out.addr # 0 /\ ~oks["out"]
         THEN input_redirection(st, s.in, oks)
    ELSE error_redirection(
             output_redirection(input_redirection(st, s.in, oks),
                                s.out, s.io_flags, oks),
             s.err, s.io_flags, oks)

command_redirections(st, s, oks) ==
    IF s.err.addr # 0 /\ s.out.addr # 0 /\ s.err.addr = s.out.addr
    THEN both_redirections(st, s.out, oks)
    ELSE error_redirection(
             output_redirection(input_redirection(st, s.in, oks),
                                s.out, s.io_flags, oks),
             s.err, s.io_flags, oks)

----------------------------------------------------------------------------
(* Builtins and status arithmetic *)

\* chdir(): 0 when the directory can be entered, -1 otherwise
chdir(path, exists) == IF path # NullStr /\ exists THEN 0 ELSE -1

\* a variant that returns whether chdir succeeded
shell_cd_Success(dir, exists) == IF chdir(get_word(dir), exists) = 0 THEN 1 ELSE 0

\* shell_cd returns bool: the int result of chdir converted to 0 or 1
shell_cd(dir, exists) == IF chdir(get_word(dir), exists) # 0 THEN 1 ELSE 0

shell_exit == SHELL_EXIT

\* wait status of a child that called exit(code)
W_EXITCODE(code) == (code % 256) * 256

\* wait statuses of a child killed by a signal: SIGKILL, SIGSEGV with core dump
SignalStatuses == {9, 128 + 11}

\* a variant that returns the low byte of the wait status
WEXITSTATUS_LowByte(status) == status % 256

WEXITSTATUS(status) == (status \div 256) % 256

\* exit codes an external program terminates with
ExitCodes == (0..MaxExit) \cup {255}

----------------------------------------------------------------------------
(* Heap buffers of the shell process *)

\* the buffer a variable of the parse_simple call on the leaf at path points to
Buf(path, name) == [leaf |-> path, name |-> name]

malloc(h, b) == h \cup {b}

free(h, b) == h \ {b}

\* get_word allocates the string it returns; for a NULL word it returns NULL
get_word_alloc(h, w, b) == IF get_word(w) = NullStr THEN h ELSE malloc(h, b)

----------------------------------------------------------------------------
(* The shell process: frames of parse_command *)

\* a frame of parse_command(c, level, father): the path of c in the tree, the
\* place the call has reached, and the child it waits for (0: none)
Frame(path, pc) == [path |-> path, pc |-> pc, pid |-> 0]

Init ==
    /\ \E n \in 0..MaxNodes : IsTreeOfSize(tree, n)
    /\ stack = <<Frame(<<>>, "call")>>
    /\ rets = [p \in {} |-> 0]
    /\ procs = <<>>
    /\ fds = [fd \in {STDIN_FILENO, STDOUT_FILENO, STDERR_FILENO} |-> Tty]
    /\ cwd = "home"
    /\ files = [f \in {} |-> <<>>]
    /\ heap = {}

Top == stack[Len(stack)]

Caller == SubSeq(stack, 1, Len(stack) - 1)

\* the node c the running call of parse_command was given
TopCmd == Node(Top.path)

\* parse_command has just been entered
Entered == stack # <<>> /\ Top.pc = "call"

\* return status to the caller
Return(status) ==
    /\ stack' = Caller
    /\ rets' = Put(rets, Top.path, status)

\* call parse_command(c->cmd<i>, level + 1, c) and remember where to resume
CallChild(i, resume) ==
    /\ stack' = Append(Append(Caller, [Top EXCEPT !.pc = resume]),
                       Frame(Append(Top.path, i), "call"))
    /\ rets' = rets

\* the status the call on c->cmd<i> returned
Status(i) == rets[Append(Top.path, i)]

\* parse_command resumes after the call on c->cmd<i> of an op node returned
Resumed(op, pc) ==
    /\ stack # <<>>
    /\ Top.pc = pc
    /\ TopCmd.op = op

----------------------------------------------------------------------------
(* parse_command: sanity checks and leaves *)

\* c == NULL
ParseCommandNull ==
    /\ Entered
    /\ TopCmd.null
    /\ Return(-1)
    /\ UNCHANGED <<tree, procs, fds, cwd, files, heap>>

IsLeaf(c) == ~c.null /\ c.op = "OP_NONE"

\* c->op == OP_NONE with c->scmd == NULL
ParseCommandNoScmd ==
    /\ Entered
    /\ IsLeaf(TopCmd)
    /\ TopCmd.scmd.null
    /\ Return(-1)
    /\ UNCHANGED <<tree, procs, fds, cwd, files, heap>>

\* a variant of the sanity checks without the test of get_word's result
SanityFails_NoWordCheck(s) == s.null \/ s.verb.addr = 0

\* the sanity checks of parse_simple: s, s->verb and get_word(s->verb)
SanityFails(s) == s.null \/ s.verb.addr = 0 \/ get_word(s.verb) = NullStr

\* parse_simple has been entered on the simple command of the current leaf
InSimple ==
    /\ Entered
    /\ IsLeaf(TopCmd)
    /\ ~TopCmd.scmd.null

TopScmd == TopCmd.scmd

cmd_name == get_word(TopScmd.verb)

ParseSimpleInvalid ==
    /\ InSimple
    /\ SanityFails(TopScmd)
    /\ Return(-1)
    /\ UNCHANGED <<tree, procs, fds, cwd, files, heap>>

IsCd(name) == name = "cd"

IsExit(name) == name = "exit"

\* the buffers of the running parse_simple call: cmd_name and argv
NameBuf == Buf(Top.path, "cmd_name")

ArgvBuf == Buf(Top.path, "argv")

\* a variant of the restore that puts back standard output only
restore_streams_StdoutOnly(fdt, saved_stdout, saved_stderr) ==
    close(close(dup2(fdt, saved_stdout, STDOUT_FILENO), saved_stdout),
          saved_stderr)

\* the end of the cd branch: dup2 the saved descriptors back and close them
restore_streams(fdt, saved_stdout, saved_stderr) ==
    close(close(dup2(dup2(fdt, saved_stdout, STDOUT_FILENO),
                     saved_stderr, STDERR_FILENO),
                saved_stdout),
          saved_stderr)

\* the cd builtin, run in the shell process
BuiltinCd ==
    /\ InSimple
    /\ ~SanityFails(TopScmd)
    /\ IsCd(cmd_name)
    /\ \E oks \in OpenOutcomes, exists \in BOOLEAN :
         LET saved_stdout == LowestFree(fds)
             t1           == dup(fds, STDOUT_FILENO)
             saved_stderr == LowestFree(t1)
             t2           == dup(t1, STDERR_FILENO)
             st           == command_redirections([fdt |-> t2, files |-> files],
                                                  TopScmd, oks)
             ret          == shell_cd(TopScmd.params, exists)
         IN  /\ fds' = restore_streams(st.fdt, saved_stdout, saved_stderr)
             /\ files' = st.files
             /\ cwd' = IF chdir(get_word(TopScmd.params), exists) = 0
                       THEN get_word(TopScmd.params) ELSE cwd
             /\ Return(ret)
    /\ heap' = free(get_word_alloc(get_word_alloc(heap, TopScmd.verb, NameBuf),
                                   TopScmd.params, Buf(Top.path, "path")),
                    NameBuf)
    /\ UNCHANGED <<tree, procs>>

\* a variant of the exit builtin that returns its own status, not shell_exit()
BuiltinExit_ReturnsZero ==
    /\ InSimple
    /\ ~SanityFails(TopScmd)
    /\ ~IsCd(cmd_name)
    /\ IsExit(cmd_name)
    /\ Return(0)
    /\ heap' = free(get_word_alloc(heap, TopScmd.verb, NameBuf), NameBuf)
    /\ UNCHANGED <<tree, procs, fds, cwd, files>>

\* the exit builtin
BuiltinExit ==
    /\ InSimple
    /\ ~SanityFails(TopScmd)
    /\ ~IsCd(cmd_name)
    /\ IsExit(cmd_name)
    /\ Return(shell_exit)
    /\ heap' = free(get_word_alloc(heap, TopScmd.verb, NameBuf), NameBuf)
    /\ UNCHANGED <<tree, procs, fds, cwd, files>>

\* parse_simple has reached the external-command part
IsExternal ==
    /\ InSimple
    /\ ~SanityFails(TopScmd)
    /\ ~IsCd(cmd_name)
    /\ ~IsExit(cmd_name)

\* get_argv returned NULL
GetArgvFails ==
    /\ IsExternal
    /\ Return(-1)
    /\ heap' = free(get_word_alloc(heap, TopScmd.verb, NameBuf), NameBuf)
    /\ UNCHANGED <<tree, procs, fds, cwd, files>>

\* fork returned a negative pid
ForkFails ==
    /\ IsExternal
    /\ Return(-1)
    /\ heap' = free(malloc(get_word_alloc(heap, TopScmd.verb, NameBuf), ArgvBuf),
                    ArgvBuf)
    /\ UNCHANGED <<tree, procs, fds, cwd, files>>

\* a child process as fork() creates it for the leaf at path: it inherits the
\* descriptor table; how/code record the way it later terminates, canopen the
\* declared redirect targets the environment lets it open, wrote the bytes
\* the loaded program has written to redirected streams
NewChild(path, fdt) ==
    [path |-> path, state |-> "forked", fdt |-> fdt, wstatus |-> 0,
     how |-> "none", code |-> 0, errout |-> <<>>, canopen |-> {},
     wrote |-> <<>>]

\* a variant of the parent that returns after fork without waitpid
Fork_NoWait ==
    /\ IsExternal
    /\ procs' = Append(procs, NewChild(Top.path, fds))
    /\ Return(0)
    /\ heap' = heap
    /\ UNCHANGED <<tree, fds, cwd, files>>

\* fork succeeded: the parent goes on to waitpid(pid, &status, 0)
Fork ==
    /\ IsExternal
    /\ procs' = Append(procs, NewChild(Top.path, fds))
    /\ stack' = Append(Caller, [Top EXCEPT !.pc = "waitpid",
                                           !.pid = Len(procs) + 1])
    /\ heap' = malloc(get_word_alloc(heap, TopScmd.verb, NameBuf), ArgvBuf)
    /\ UNCHANGED <<tree, rets, fds, cwd, files>>

\* the streams simple command s declares a redirect for
Declared(s) ==
    { x \in {"in", "out", "err"} :
        (x = "in" /\ s.in.addr # 0) \/ (x = "out" /\ s.out.addr # 0)
            \/ (x = "err" /\ s.err.addr # 0) }

\* the child after execvp failed: exit(1)
ExecFailed(p) ==
    [p EXCEPT !.state = "zombie", !.wstatus = W_EXITCODE(1),
              !.how = "execfail", !.code = 1]

\* the child (pid == 0): command_redirections, then execvp
ChildExec(pid) ==
    /\ procs[pid].state = "forked"
    /\ \E oks \in OpenOutcomes, loaded \in BOOLEAN :
         LET st == command_redirections([fdt |-> procs[pid].fdt, files |-> files],
                                        NodeAt(tree, procs[pid].path).scmd, oks)
             p  == [procs[pid] EXCEPT
                       !.fdt = st.fdt,
                       !.canopen = { s \in Declared(NodeAt(tree, procs[pid].path).scmd) :
                                       oks[s] }]
         IN  /\ procs' = [procs EXCEPT ![pid] =
                            IF loaded THEN [p EXCEPT !.state = "running"]
                            ELSE ExecFailed(p)]
             /\ files' = st.files
    /\ UNCHANGED <<tree, stack, rets, fds, cwd, heap>>

\* a byte no write has stored: what a read finds in a hole of a file
Hole == <<0, 0>>

\* the content of a file after one byte is stored at offset at
StoreByte(content, at, byte) ==
    [i \in 1..(IF at + 1 > Len(content) THEN at + 1 ELSE Len(content)) |->
        IF i = at + 1 THEN byte
        ELSE IF i <= Len(content) THEN content[i] ELSE Hole]

\* the offset a write through descriptor target t stores at: the end of the
\* file when t was opened with O_APPEND, the descriptor's own offset otherwise
WriteOffset(t, content) ==
    IF "O_APPEND" \in t.flags THEN Len(content) ELSE t.pos

\* the program the child loaded writes one byte to standard output or standard
\* error, when that stream is redirected to a file
ChildWrite(pid) ==
    /\ procs[pid].state = "running"
    /\ Len(procs[pid].wrote) < MaxWrites
    /\ \E fd \in {STDOUT_FILENO, STDERR_FILENO} :
         LET t    == procs[pid].fdt[fd]
             byte == <<fd, Len(procs[pid].wrote) + 1>>
             at   == WriteOffset(t, files[t.file])
         IN  /\ t.file \in DOMAIN files
             /\ files' = [files EXCEPT ![t.file] = StoreByte(@, at, byte)]
             /\ procs' = [procs EXCEPT ![pid] =
                            [@ EXCEPT !.fdt[fd].pos = at + 1,
                                      !.wrote = Append(@, byte)]]
    /\ UNCHANGED <<tree, stack, rets, fds, cwd, heap>>

\* the program the child loaded terminates normally
ChildExit(pid) ==
    /\ procs[pid].state = "running"
    /\ \E k \in ExitCodes :
         procs' = [procs EXCEPT ![pid] =
                     [@ EXCEPT !.state = "zombie", !.wstatus = W_EXITCODE(k),
                               !.how = "exit", !.code = k]]
    /\ UNCHANGED <<tree, stack, rets, fds, cwd, files, heap>>

\* the program the child loaded is killed by a signal
ChildKilled(pid) ==
    /\ procs[pid].state = "running"
    /\ \E ws \in SignalStatuses :
         procs' = [procs EXCEPT ![pid] =
                     [@ EXCEPT !.state = "zombie", !.wstatus = ws,
                               !.how = "signal"]]
    /\ UNCHANGED <<tree, stack, rets, fds, cwd, files, heap>>

\* waitpid returned: return WEXITSTATUS(status)
WaitChild ==
    /\ stack # <<>>
    /\ Top.pc = "waitpid"
    /\ procs[Top.pid].state = "zombie"
    /\ procs' = [procs EXCEPT ![Top.pid].state = "reaped"]
    /\ Return(WEXITSTATUS(procs[Top.pid].wstatus))
    /\ heap' = free(free(heap, ArgvBuf), NameBuf)
    /\ UNCHANGED <<tree, fds, cwd, files>>

----------------------------------------------------------------------------
(* parse_command: the switch on c->op *)

\* parse_command has been entered on an operator node tagged op
EnteredOp(op) ==
    /\ Entered
    /\ ~TopCmd.null
    /\ TopCmd.op = op

\* OP_SEQUENTIAL: status = parse_command(c->cmd1, level + 1, c)
SequentialCmd1 ==
    /\ EnteredOp("OP_SEQUENTIAL")
    /\ CallChild(1, "cmd1")
    /\ UNCHANGED <<tree, procs, fds, cwd, files, heap>>

\* OP_SEQUENTIAL: return parse_command(c->cmd2, level + 1, c), the call
SequentialCmd2 ==
    /\ Resumed("OP_SEQUENTIAL", "cmd1")
    /\ CallChild(2, "cmd2")
    /\ UNCHANGED <<tree, procs, fds, cwd, files, heap>>

\* a variant that returns the status variable, which holds cmd1's status
SequentialReturn_Cmd1 ==
    /\ Resumed("OP_SEQUENTIAL", "cmd2")
    /\ Return(Status(1))
    /\ UNCHANGED <<tree, procs, fds, cwd, files, heap>>

\* OP_SEQUENTIAL: return parse_command(c->cmd2, level + 1, c), the return
SequentialReturn ==
    /\ Resumed("OP_SEQUENTIAL", "cmd2")
    /\ Return(Status(2))
    /\ UNCHANGED <<tree, procs, fds, cwd, files, heap>>

\* OP_PARALLEL: break, then return 0
ParallelBreak ==
    /\ EnteredOp("OP_PARALLEL")
    /\ Return(0)
    /\ UNCHANGED <<tree, procs, fds, cwd, files, heap>>

\* OP_CONDITIONAL_NZERO: status = parse_command(c->cmd1, level + 1, c)
NZeroCmd1 ==
    /\ EnteredOp("OP_CONDITIONAL_NZERO")
    /\ CallChild(1, "cmd1")
    /\ UNCHANGED <<tree, procs, fds, cwd, files, heap>>

\* a variant of the test that takes only positive statuses as failures
NZeroRunsCmd2_Positive(status) == status > 0

\* OP_CONDITIONAL_NZERO: if (status != 0)
NZeroRunsCmd2(status) == status # 0

\* OP_CONDITIONAL_NZERO: the if after cmd1 returned
NZeroAfterCmd1 ==
    /\ Resumed("OP_CONDITIONAL_NZERO", "cmd1")
    /\ IF NZeroRunsCmd2(Status(1))
       THEN CallChild(2, "cmd2")
       ELSE Return(Status(1))
    /\ UNCHANGED <<tree, procs, fds, cwd, files, heap>>

\* OP_CONDITIONAL_NZERO: return parse_command(c->cmd2, level + 1, c)
NZeroReturn ==
    /\ Resumed("OP_CONDITIONAL_NZERO", "cmd2")
    /\ Return(Status(2))
    /\ UNCHANGED <<tree, procs, fds, cwd, files, heap>>

\* OP_CONDITIONAL_ZERO: status = parse_command(c->cmd1, level + 1, c)
ZeroCmd1 ==
    /\ EnteredOp("OP_CONDITIONAL_ZERO")
    /\ CallChild(1, "cmd1")
    /\ UNCHANGED <<tree, procs, fds, cwd, files, heap>>

\* a variant of the test with the comparison inverted
ZeroRunsCmd2_Inverted(status) == status # 0

\* OP_CONDITIONAL_ZERO: if (status == 0)
ZeroRunsCmd2(status) == status = 0

\* OP_CONDITIONAL_ZERO: the if after cmd1 returned
ZeroAfterCmd1 ==
    /\ Resumed("OP_CONDITIONAL_ZERO", "cmd1")
    /\ IF ZeroRunsCmd2(Status(1))
       THEN CallChild(2, "cmd2")
       ELSE Return(Status(1))
    /\ UNCHANGED <<tree, procs, fds, cwd, files, heap>>

\* OP_CONDITIONAL_ZERO: return parse_command(c->cmd2, level + 1, c)
ZeroReturn ==
    /\ Resumed("OP_CONDITIONAL_ZERO", "cmd2")
    /\ Return(Status(2))
    /\ UNCHANGED <<tree, procs, fds, cwd, files, heap>>

\* OP_PIPE: break, then return 0
PipeBreak ==
    /\ EnteredOp("OP_PIPE")
    /\ Return(0)
    /\ UNCHANGED <<tree, procs, fds, cwd, files, heap>>

\* the tags the switch has a case for
SwitchCases ==
    {"OP_SEQUENTIAL", "OP_PARALLEL", "OP_CONDITIONAL_NZERO",
     "OP_CONDITIONAL_ZERO", "OP_PIPE"}

\* default: return SHELL_EXIT
DefaultOp ==
    /\ Entered
    /\ ~TopCmd.null
    /\ TopCmd.op \notin SwitchCases \cup {"OP_NONE"}
    /\ Return(SHELL_EXIT)
    /\ UNCHANGED <<tree, procs, fds, cwd, files, heap>>

----------------------------------------------------------------------------
(* The specification *)

Next ==
    \/ ParseCommandNull
    \/ ParseCommandNoScmd
    \/ ParseSimpleInvalid
    \/ BuiltinCd
    \/ BuiltinExit
    \/ Fork
    \/ GetArgvFails
    \/ ForkFails
    \/ WaitChild
    \/ SequentialCmd1
    \/ SequentialCmd2
    \/ SequentialReturn
    \/ ParallelBreak
    \/ NZeroCmd1
    \/ NZeroAfterCmd1
    \/ NZeroReturn
    \/ ZeroCmd1
    \/ ZeroAfterCmd1
    \/ ZeroReturn
    \/ PipeBreak
    \/ DefaultOp
    \/ \E pid \in DOMAIN procs : ChildExec(pid)
    \/ \E pid \in DOMAIN procs : ChildExit(pid)
    \/ \E pid \in DOMAIN procs : ChildKilled(pid)

Spec == Init /\ [][Next]_vars

----------------------------------------------------------------------------
(* The specification of one leaf with redirections.  The leaves of Spec    *)
(* declare no output or error redirect, so what their programs write leaves *)
(* no trace; here the tree is one cd or external leaf with any combination  *)
(* of redirects, and the target of the output redirect may exist already.   *)

\* the output and error words of a leaf: err may be the word of out (what
\* the parser builds for a merged redirect), another word naming the same
\* file, or a word naming another file
OutWords == {NullWord, Word(4, "f")}

ErrWords == {NullWord, Word(4, "f"), Word(5, "f"), Word(5, "g")}

IoFlags == SUBSET {"IO_OUT_APPEND", "IO_ERR_APPEND"}

\* a byte a file holds before the command runs
OldByte == <<0, 1>>

InitLeaf ==
    /\ \E verb \in {"cd", "prog"}, in \in {NullWord, Word(3, "i")},
          out \in OutWords, err \in ErrWords, io_flags \in IoFlags :
          tree = LeafCmd(Scmd(Word(1, verb), Word(2, "dir"), in, out, err,
                              io_flags))
    /\ stack = <<Frame(<<>>, "call")>>
    /\ rets = [p \in {} |-> 0]
    /\ procs = <<>>
    /\ fds = [fd \in {STDIN_FILENO, STDOUT_FILENO, STDERR_FILENO} |-> Tty]
    /\ cwd = "home"
    /\ files \in {[f \in {} |-> <<>>], [f \in {"f"} |-> <<OldByte>>]}
    /\ heap = {}

NextLeaf ==
    \/ BuiltinCd
    \/ Fork
    \/ GetArgvFails
    \/ ForkFails
    \/ WaitChild
    \/ \E pid \in DOMAIN procs : ChildExec(pid)
    \/ \E pid \in DOMAIN procs : ChildWrite(pid)
    \/ \E pid \in DOMAIN procs : ChildExit(pid)
    \/ \E pid \in DOMAIN procs : ChildKilled(pid)

SpecLeaf == InitLeaf /\ [][NextLeaf]_vars

----------------------------------------------------------------------------
(* Vocabulary of the properties *)

\* parse_command has returned on the node at path p
Done(p) == p \in DOMAIN rets

\* the paths of the nodes parse_command has been called on
StartedPaths == DOMAIN rets \cup { stack[i].path : i \in DOMAIN stack }

Started(p) == p \in StartedPaths

\* the operator nodes tagged op that parse_command has been called on
OpNodes(op) == { p \in StartedPaths : ~Node(p).null /\ Node(p).op = op }

Cmd1(p) == Append(p, 1)

Cmd2(p) == Append(p, 2)

IsPrefix(p, q) == Len(p) <= Len(q) /\ SubSeq(q, 1, Len(p)) = p

\* the child processes created while evaluating the subtree at path p
ProcsUnder(p) == { pid \in DOMAIN procs : IsPrefix(p, procs[pid].path) }

\* the subtree at path p has not been touched: no call, no process
Untouched(p) == ~Started(p) /\ ProcsUnder(p) = {}

\* the leaves with a verb that parse_command has been called on
VerbLeaves ==
    { p \in StartedPaths :
        /\ IsLeaf(Node(p))
        /\ ~Node(p).scmd.null
        /\ Node(p).scmd.verb.addr # 0 }

Verb(p) == get_word(Node(p).scmd.verb)

----------------------------------------------------------------------------
(* C1: And nodes *)

\* C1 (as stated): for every And node (OP_CONDITIONAL_ZERO) with children A
\* and B, if A returns a non-zero status then B is evaluated and the node
\* returns B's status; if A returns 0 then B is never evaluated, no process
\* is created for B, and the node returns A's status.
C1_AndRunsCmd2OnFailure ==
    \A p \in OpNodes("OP_CONDITIONAL_ZERO") :
        /\ (Done(Cmd1(p)) /\ rets[Cmd1(p)] = 0) =>
              /\ Untouched(Cmd2(p))
              /\ Done(p) => rets[p] = rets[Cmd1(p)]
        /\ (Done(p) /\ rets[Cmd1(p)] # 0) =>
              /\ Done(Cmd2(p))
              /\ rets[p] = rets[Cmd2(p)]

\* C1 (amended): for every And node (OP_CONDITIONAL_ZERO) with children A and
\* B, if A returns 0 then B is evaluated, after A has returned, and the node
\* returns B's status; if A returns a non-zero status then B is never
\* evaluated, no process is created for B, and the node returns A's status.
C1_AndRunsCmd2OnSuccess ==
    \A p \in OpNodes("OP_CONDITIONAL_ZERO") :
        /\ Started(Cmd2(p)) => Done(Cmd1(p))
        /\ (Done(Cmd1(p)) /\ rets[Cmd1(p)] # 0) =>
              /\ Untouched(Cmd2(p))
              /\ Done(p) => rets[p] = rets[Cmd1(p)]
        /\ (Done(p) /\ rets[Cmd1(p)] = 0) =>
              /\ Done(Cmd2(p))
              /\ rets[p] = rets[Cmd2(p)]

\* an And node has returned the non-zero status of B, run after A returned 0
C1_Witness ==
    \E p \in OpNodes("OP_CONDITIONAL_ZERO") :
        /\ Done(p)
        /\ rets[Cmd1(p)] = 0
        /\ Done(Cmd2(p))
        /\ rets[Cmd2(p)] # 0
        /\ rets[p] = rets[Cmd2(p)]

----------------------------------------------------------------------------
(* C2: Or nodes *)

\* C2: for every Or node (OP_CONDITIONAL_NZERO) with children A and B, if A
\* returns 0 then B is never evaluated (no call, no process) and the node
\* returns 0; if A returns a non-zero status then B is evaluated, after A has
\* finished and its processes are reaped, and the node returns B's status.
C2_OrRunsCmd2OnFailure ==
    \A p \in OpNodes("OP_CONDITIONAL_NZERO") :
        /\ Started(Cmd2(p)) =>
              /\ Done(Cmd1(p))
              /\ \A pid \in ProcsUnder(Cmd1(p)) : procs[pid].state = "reaped"
        /\ (Done(Cmd1(p)) /\ rets[Cmd1(p)] = 0) =>
              /\ Untouched(Cmd2(p))
              /\ Done(p) => rets[p] = 0
        /\ (Done(p) /\ rets[Cmd1(p)] # 0) =>
              /\ Done(Cmd2(p))
              /\ rets[p] = rets[Cmd2(p)]

\* an Or node has returned the status of B, run after A returned -1
C2_Witness ==
    \E p \in OpNodes("OP_CONDITIONAL_NZERO") :
        /\ Done(p)
        /\ rets[Cmd1(p)] = -1
        /\ Done(Cmd2(p))
        /\ rets[p] = rets[Cmd2(p)]
        /\ rets[p] # rets[Cmd1(p)]

----------------------------------------------------------------------------
(* C3: Sequential nodes *)

\* C3: for every Sequential node with children A and B, B is evaluated only
\* after A has returned, B is always evaluated whatever status A returned,
\* and the node's status is B's status.
C3_SequentialReturnsCmd2 ==
    \A p \in OpNodes("OP_SEQUENTIAL") :
        /\ Started(Cmd2(p)) => Done(Cmd1(p))
        /\ Done(p) =>
              /\ Done(Cmd1(p))
              /\ Done(Cmd2(p))
              /\ rets[p] = rets[Cmd2(p)]

\* a Sequential node has returned 0, the status of B, after A returned the
\* SHELL_EXIT sentinel
C3_Witness ==
    \E p \in OpNodes("OP_SEQUENTIAL") :
        /\ Done(p)
        /\ rets[Cmd1(p)] = SHELL_EXIT
        /\ rets[Cmd2(p)] = 0
        /\ rets[p] = 0

----------------------------------------------------------------------------
(* C4, C5: Parallel and Pipe nodes *)

\* C4: evaluating a Parallel node with children A and B forks one child per
\* branch, evaluates both branches and waits for both children before it
\* returns; the returned composite is truthy iff both A and B succeeded.
C4_ParallelRunsBothBranches ==
    \A p \in OpNodes("OP_PARALLEL") :
        Done(p) =>
            /\ Cardinality(ProcsUnder(p)) >= 2
            /\ \A pid \in ProcsUnder(p) : procs[pid].state = "reaped"
            /\ Done(Cmd1(p))
            /\ Done(Cmd2(p))
            /\ (rets[p] # 0) <=> (rets[Cmd1(p)] = 0 /\ rets[Cmd2(p)] = 0)

\* C5: evaluating a Pipe node with children A and B runs A and B as separate
\* processes, A's standard output connected to B's standard input, and the
\* node's status is B's status.
C5_PipeRunsBothSides ==
    \A p \in OpNodes("OP_PIPE") :
        Done(p) =>
            /\ Cardinality(ProcsUnder(p)) >= 2
            /\ Done(Cmd1(p))
            /\ Done(Cmd2(p))
            /\ rets[p] = rets[Cmd2(p)]

----------------------------------------------------------------------------
(* C6 - C9: leaves *)

\* the child processes created for the leaf at path p
ProcsAt(p) == { pid \in DOMAIN procs : procs[pid].path = p }

\* C6: evaluating a leaf whose verb is exit or quit creates no child process
\* and returns the SHELL_EXIT sentinel.
C6_ExitAndQuitReturnSentinel ==
    \A p \in VerbLeaves :
        Verb(p) \in {"exit", "quit"} =>
            /\ ProcsAt(p) = {}
            /\ Done(p) => rets[p] = SHELL_EXIT

\* C7: when the child of an external leaf is killed by a signal, the leaf
\* evaluation returns a non-zero status that is not the raw wait status.
C7_SignalGivesNonZeroStatus ==
    \A pid \in DOMAIN procs :
        (procs[pid].how = "signal" /\ Done(procs[pid].path)) =>
            /\ rets[procs[pid].path] # 0
            /\ rets[procs[pid].path] # procs[pid].wstatus

\* C8: for every external leaf whose child exits normally with code k, the
\* leaf evaluation forks exactly one child, returns only after it has waited
\* for that child, and returns exactly k.
C8_NormalExitReturnsCode ==
    \A pid \in DOMAIN procs :
        LET p == procs[pid].path
        IN  /\ ProcsAt(p) = {pid}
            /\ Done(p) => procs[pid].state = "reaped"
            /\ (Done(p) /\ procs[pid].how = "exit") => rets[p] = procs[pid].code

\* an external leaf has returned 255, the code its child exited with
C8_Witness ==
    \E pid \in DOMAIN procs :
        /\ procs[pid].how = "exit"
        /\ procs[pid].code = 255
        /\ Done(procs[pid].path)
        /\ rets[procs[pid].path] = 255

\* the message the child is to write when the program cannot be loaded
ExecFailedMessage(verb) == <<"Execution failed for '", verb, "'">>

\* C9: when execvp fails in the forked child of an external leaf, the child
\* writes "Execution failed for '<verb>'" to its error stream, terminates
\* with a non-zero status, and the parent's leaf evaluation returns it.
C9_ExecFailureIsReported ==
    \A pid \in DOMAIN procs :
        procs[pid].how = "execfail" =>
            /\ procs[pid].errout = <<ExecFailedMessage(Verb(procs[pid].path))>>
            /\ procs[pid].code # 0
            /\ procs[pid].state \in {"zombie", "reaped"}
            /\ Done(procs[pid].path) => rets[procs[pid].path] = procs[pid].code

----------------------------------------------------------------------------
(* C10: malformed nodes *)

\* a null node, a leaf without simple command, a leaf without verb, or a
\* leaf whose verb resolves to no word
Malformed(c) ==
    \/ c.null
    \/ /\ IsLeaf(c)
       /\ \/ c.scmd.null
          \/ c.scmd.verb.addr = 0
          \/ c.scmd.verb.text = NullStr

\* C10: a call of parse_command on a malformed node, at any depth, returns -1
\* in one step that creates no process, redirects no descriptor, creates no
\* file and leaves the working directory unchanged.
C10_MalformedReturnsMinusOne ==
    [][ (Entered /\ Malformed(TopCmd)) =>
            /\ stack' = Caller
            /\ rets' = Put(rets, Top.path, -1)
            /\ UNCHANGED <<procs, fds, cwd, files, heap>> ]_vars

\* a malformed node below the root has returned -1 after a sibling had
\* created a process
C10_Witness ==
    \E p \in DOMAIN rets :
        /\ Len(p) >= 1
        /\ Malformed(Node(p))
        /\ rets[p] = -1
        /\ procs # <<>>

----------------------------------------------------------------------------
(* C12: the status of cd *)

\* C12: a cd leaf evaluation either returns 0 and the working directory is
\* the first argument (the directory change succeeded), or returns a non-zero
\* status and the working directory is unchanged; it creates no process.
C12_CdStatusFollowsChdir ==
    [][ (Entered /\ ~Malformed(TopCmd) /\ IsLeaf(TopCmd)
                 /\ TopScmd.verb.text = "cd") =>
            /\ Top.path \in DOMAIN rets'
            /\ \/ rets'[Top.path] = 0 /\ cwd' = TopScmd.params.text
               \/ rets'[Top.path] # 0 /\ cwd' = cwd
            /\ procs' = procs ]_vars

\* a cd that changed the directory has returned 0 and a later cd that failed
\* has returned non-zero, leaving the directory the first one set
C12_Witness ==
    /\ Done(<<1>>) /\ Done(<<2>>)
    /\ <<1>> \in VerbLeaves /\ <<2>> \in VerbLeaves
    /\ Verb(<<1>>) = "cd" /\ Verb(<<2>>) = "cd"
    /\ rets[<<1>>] = 0
    /\ rets[<<2>>] # 0
    /\ cwd = "dir"
    /\ procs = <<>>

----------------------------------------------------------------------------
(* C15: buffers of a leaf evaluation *)

\* C15: when a leaf evaluation has returned, on any return path, every buffer
\* allocated for that leaf (cmd_name, the path of cd, argv) has been freed.
C15_LeafBuffersReleased ==
    \A b \in heap : ~Done(b.leaf)

----------------------------------------------------------------------------
(* C16: one child at a time *)

NotReaped == { pid \in DOMAIN procs : procs[pid].state # "reaped" }

\* C16: the evaluator waits for each child it creates before it creates the
\* next: at most one child is not yet waited for; when a process of the right
\* branch of a Sequential, And or Or node exists, every process of its left
\* branch has been waited for; when the top-level call has returned, every
\* child has been waited for.
C16_OneChildAtATime ==
    /\ Cardinality(NotReaped) <= 1
    /\ \A p \in OpNodes("OP_SEQUENTIAL") \cup OpNodes("OP_CONDITIONAL_ZERO")
                  \cup OpNodes("OP_CONDITIONAL_NZERO") :
          ProcsUnder(Cmd2(p)) # {} =>
              \A pid \in ProcsUnder(Cmd1(p)) : procs[pid].state = "reaped"
    /\ stack = <<>> => NotReaped = {}

\* the child of the right branch runs after the child of the left branch has
\* been waited for
C16_Witness ==
    /\ Len(procs) = 2
    /\ procs[1].path = <<1>> /\ procs[1].state = "reaped"
    /\ procs[2].path = <<2>> /\ procs[2].state = "running"

----------------------------------------------------------------------------
(* C17: operator tags without a case *)

\* the operator nodes whose tag the switch has no case for
UnknownOpNodes ==
    { p \in StartedPaths :
        ~Node(p).null /\ Node(p).op \notin SwitchCases \cup {"OP_NONE"} }

\* C17: a node whose tag is none of Sequential, And, Or, Pipe, Parallel
\* returns -1 without evaluating a child; SHELL_EXIT is returned only by the
\* evaluation of an exit or quit leaf.
C17_UnknownOpReturnsMinusOne ==
    /\ \A p \in UnknownOpNodes :
          /\ Untouched(Cmd1(p))
          /\ Untouched(Cmd2(p))
          /\ Done(p) => rets[p] = -1
    /\ \A p \in DOMAIN rets :
          rets[p] = SHELL_EXIT =>
              \E q \in VerbLeaves : Done(q) /\ Verb(q) \in {"exit", "quit"}

----------------------------------------------------------------------------
(* C18: the exit request on its way to the top-level caller *)

\* the exit leaves that have been evaluated
ExitLeaves == { p \in VerbLeaves : Verb(p) = "exit" /\ Done(p) }

\* the operator nodes above the node at path p
Ancestors(p) == { SubSeq(p, 1, n) : n \in 0..(Len(p) - 1) }

\* the leaves of the right branch of a follow the node at p in evaluation order
Before(p, a) == IsPrefix(Cmd1(a), p)

\* C18 (as stated): once an exit leaf has been evaluated, no leaf that follows
\* it in evaluation order is executed, and the top-level evaluation returns
\* SHELL_EXIT.
C18_ExitAlwaysReachesDriver ==
    \A p \in ExitLeaves :
        /\ \A a \in Ancestors(p) : Before(p, a) => Untouched(Cmd2(a))
        /\ stack = <<>> => rets[<<>>] = SHELL_EXIT

\* node a hands the status of its child on the way to p to its own caller
\* without evaluating anything after it
Forwards(a, p) ==
    \/ IsPrefix(Cmd2(a), p)
    \/ Node(a).op = "OP_CONDITIONAL_ZERO"

\* C18 (amended): an exit leaf returns SHELL_EXIT to the node above it, and
\* the sentinel travels up like any other non-zero status.  When the exit
\* leaf lies in the right branch of every Sequential and Or node above it,
\* no leaf that follows it is executed and the top-level evaluation returns
\* SHELL_EXIT; a Sequential or Or node whose left branch returned SHELL_EXIT
\* evaluates its right branch and returns the status of that branch.
C18_ExitReachesDriverThroughCmd2 ==
    \A p \in ExitLeaves :
        /\ rets[p] = SHELL_EXIT
        /\ (\A a \in Ancestors(p) : Forwards(a, p)) =>
              \A a \in Ancestors(p) :
                  /\ Before(p, a) => Untouched(Cmd2(a))
                  /\ Done(a) => rets[a] = SHELL_EXIT
        /\ \A a \in Ancestors(p) :
              (/\ Before(p, a)
               /\ Node(a).op \in {"OP_SEQUENTIAL", "OP_CONDITIONAL_NZERO"}
               /\ Done(a)
               /\ rets[Cmd1(a)] = SHELL_EXIT) =>
                  /\ Done(Cmd2(a))
                  /\ rets[a] = rets[Cmd2(a)]

\* And(exit, B) has returned SHELL_EXIT to the top-level caller without
\* touching B
C18_Witness ==
    /\ stack = <<>>
    /\ <<1>> \in ExitLeaves
    /\ Node(<<>>).op = "OP_CONDITIONAL_ZERO"
    /\ Untouched(<<2>>)
    /\ rets[<<>>] = SHELL_EXIT

----------------------------------------------------------------------------
(* C11, C19: the standard streams of the shell process around cd *)

\* the shell process is about to evaluate a well-formed cd leaf
AtCdLeaf ==
    /\ Entered
    /\ ~Malformed(TopCmd)
    /\ IsLeaf(TopCmd)
    /\ TopScmd.verb.text = "cd"

\* the leaf at the root is a cd leaf whose evaluation has returned
CdLeafDone ==
    /\ <<>> \in VerbLeaves
    /\ Verb(<<>>) = "cd"
    /\ Done(<<>>)

\* C11: evaluating a cd leaf leaves standard output and standard error of
\* the shell process on the targets they had before, whatever output and
\* error redirects the leaf declares, whether or not their targets open and
\* whether or not the directory change succeeds.
C11_CdRestoresStdoutStderr ==
    [][ AtCdLeaf =>
            /\ fds'[STDOUT_FILENO] = fds[STDOUT_FILENO]
            /\ fds'[STDERR_FILENO] = fds[STDERR_FILENO] ]_vars

\* a cd whose output and error redirects were both opened (their targets
\* now exist) and whose directory change failed has returned, with both
\* streams back on the terminal
C11_Witness ==
    /\ CdLeafDone
    /\ Node(<<>>).scmd.out.text = "f"
    /\ Node(<<>>).scmd.err.text = "g"
    /\ {"f", "g"} \subseteq DOMAIN files
    /\ rets[<<>>] # 0
    /\ fds[STDOUT_FILENO] = Tty
    /\ fds[STDERR_FILENO] = Tty

\* C19: after a cd leaf that declares an input redirect, standard input of
\* the shell process is on the target it had before (the terminal) and the
\* set of open descriptors is the one it had before.
C19_CdLeavesStdinAndDescriptors ==
    (CdLeafDone /\ Node(<<>>).scmd.in.addr # 0) =>
        /\ fds[STDIN_FILENO] = Tty
        /\ DOMAIN fds = {STDIN_FILENO, STDOUT_FILENO, STDERR_FILENO}

----------------------------------------------------------------------------
(* C13, C14, C20: the standard streams of the child of an external leaf *)

\* the children that are past command_redirections
Redirected == { pid \in DOMAIN procs : procs[pid].state # "forked" }

\* the simple command child pid was forked for
ScmdOf(pid) == NodeAt(tree, procs[pid].path).scmd

\* the parser gave the leaf one word for both the output and the error target
MergedRedirect(s) == s.out.addr # 0 /\ s.err.addr = s.out.addr

\* the descriptor, the target word and the append flag of a stream of s
StreamFd(x) ==
    IF x = "in" THEN STDIN_FILENO
    ELSE IF x = "out" THEN STDOUT_FILENO ELSE STDERR_FILENO

StreamWord(s, x) == IF x = "in" THEN s.in ELSE IF x = "out" THEN s.out ELSE s.err

StreamAppends(s, x) ==
    \/ x = "out" /\ "IO_OUT_APPEND" \in s.io_flags
    \/ x = "err" /\ "IO_ERR_APPEND" \in s.io_flags

\* C20: a child whose leaf declares an input redirect with a target that
\* can be opened has standard input on that target once its redirections
\* are applied, whatever output and error redirects the leaf declares.
C20_InputRedirectAlwaysApplied ==
    \A pid \in Redirected :
        "in" \in procs[pid].canopen =>
            procs[pid].fdt[STDIN_FILENO].file = get_word(ScmdOf(pid).in)

\* C14: when the redirect is not the merged one, each stream of the child
\* is settled on its own: a declared redirection whose target opens binds
\* the stream to that target (in append mode exactly when its flag is set),
\* a redirection that is not declared or whose target fails to open leaves
\* the stream on the target inherited from the shell process; the child goes
\* on to execvp, and the status the parent returns for a program that
\* exited is the program's exit code.
C14_RedirectionsIndependent ==
    \A pid \in Redirected :
        ~MergedRedirect(ScmdOf(pid)) =>
            /\ \A x \in {"in", "out", "err"} :
                  LET t == procs[pid].fdt[StreamFd(x)]
                  IN  IF x \in procs[pid].canopen
                      THEN /\ t.file = get_word(StreamWord(ScmdOf(pid), x))
                           /\ "O_APPEND" \in t.flags <=> StreamAppends(ScmdOf(pid), x)
                      ELSE t = fds[StreamFd(x)]
            /\ procs[pid].state = "zombie" => procs[pid].how # "none"
            /\ (procs[pid].state = "reaped" /\ procs[pid].how = "exit") =>
                  rets[procs[pid].path] = procs[pid].code

\* a running program whose input target failed to open and whose output and
\* error targets, two different files, were opened: standard input is still
\* the terminal, the two other streams are on their files
C14_Witness ==
    \E pid \in Redirected :
        /\ procs[pid].state = "running"
        /\ ScmdOf(pid).in.addr # 0
        /\ procs[pid].canopen = {"out", "err"}
        /\ procs[pid].fdt[STDIN_FILENO] = Tty
        /\ procs[pid].fdt[STDOUT_FILENO].file = "f"
        /\ procs[pid].fdt[STDERR_FILENO].file = "g"

\* the children that have exited with standard output and standard error on
\* one and the same file
ExitedOnOneFile ==
    { pid \in Redirected :
        /\ procs[pid].state \in {"zombie", "reaped"}
        /\ procs[pid].fdt[STDOUT_FILENO].file \in DOMAIN files
        /\ procs[pid].fdt[STDERR_FILENO].file = procs[pid].fdt[STDOUT_FILENO].file }

\* the bytes a file holds
Bytes(content) == { content[i] : i \in DOMAIN content }

\* C13: after a command whose output and error redirects name the same
\* destination has exited, the file holds every byte the command wrote to
\* either stream, in whatever order it wrote them.
C13_MergedStreamsKeepEveryByte ==
    \A pid \in ExitedOnOneFile :
        \A i \in DOMAIN procs[pid].wrote :
            procs[pid].wrote[i] \in Bytes(files[procs[pid].fdt[STDOUT_FILENO].file])

====
